---- MODULE Spec2Model ----
(***************************************************************************)
(* Model of trento3d's nucleon participation engine (src/src/nucleon.h)    *)
(* and its random-field generator (src/src/rft2d.cxx).                     *)
(*                                                                         *)
(* Real numbers are fixed-point integers in thousandths ("milli"): 1.0 is  *)
(* 1000.  Squared distances and coordinates are whole numbers of fm.       *)
(***************************************************************************)
EXTENDS Integers, Sequences, FiniteSets, TLC

VARIABLES
  nuc,        \* Nucleon objects: x_, y_, fi_, fj_, participant_
  prefactor,  \* NucleonProfile::prefactor_ (milli)
  enginePos,  \* position of the process-wide stream random::engine
  genPos,     \* position of the field generator's own stream rft2d::generator
  field,      \* which realisation phi_x holds (0: none generated yet)
  op,         \* the last call: name, arguments, what it did
  ret,        \* the last call's return value
  gen,        \* the RFT::rft2d object: how its construction ended, its members
  grid,       \* a run() in progress: loop position, phi_x, phi_k
  icdf        \* an RFT::iCDF object: its table and its last two evaluations

vars == <<nuc, prefactor, enginePos, genPos, field, op, ret, gen, grid, icdf>>

eventVars == <<nuc, prefactor, enginePos, genPos, field, op, ret>>

---------------------------------------------------------------------------
(* Bounds and inputs *)

\* Cap on the position of the global stream (stops the counter growing).
MaxDraws == 4
\* Cap on the number of field realisations generated.
MaxRuns == 1
\* Largest grid side of a run() followed cell by cell.
MaxGrid == 4
\* Entries of the inverse-CDF table (the generator builds it with 500).
TableN == 3
\* Search range of the fixed-point square root.
MaxRoot == 2000

\* Nucleons of the projectile and of the target nucleus.
Projectiles == {"A"}
Targets == {"B", "C"}
Nucleons == Projectiles \cup Targets
\* Transverse positions handed to set_position: squared distances 0, 1, 10, 13.
Positions == {<<0, 0>>, <<1, 3>>, <<2, 3>>}
\* Raw outputs of random::engine() used for the anchors.
EngineOutputs == {1949, 1950}
\* Outputs of random::canonical<double>() in [0,1), milli.
Uniforms == {300, 600, 900}
\* Outputs of fluct_dist_(random::engine), milli.
GammaDraws == {500, 2000}
\* Arguments of thickness().
DistSqrs == {0, 1, 2, 3}
\* Realisations the field generator can hold after run().
FieldIds == {1, 2}
\* Arguments the field generator is constructed with: grid sizes, kernel
\* widths, correlation lengths and fluctuation shapes (milli), extent (milli).
CtorSizes == {-2, 0, 100, 2000}
CtorWidths == {-1000, 0, 500}
CtorLengths == {0, 1000}
CtorShapes == {0, 1000}
CtorExtents == {20000}
\* Fluctuation shapes an iCDF table is built for (milli).
Shapes == {250, 1000, 4000}
\* Values of the regularized incomplete gamma function P(k, x) (milli).
CdfValues == {0, 100, 500, 900, 1000}
\* Normal deviates handed to iCDF::operator(), in units of sigma.
Deviates == {-9, -3, -2, -1, 0, 1, 2, 3, 9}

---------------------------------------------------------------------------
(* Program constants and configuration *)

PiMilli == 3142
\* Anchor selection: random::engine()%1950+25.
AnchorMod == 1950
AnchorOffset == 25
\* Profile configuration (milli for widths, fm^2 for radii).
WidthSqrMilli == 500
MaxImpactSqr == 10
TruncRadiusSqr == 2
\* ln(ln 2): q = 1/2 at d^2 = 0, Kf = 1.
CrossSecParamMilli == -367
\* Field generator configuration: 2000 x 2000 cells of 1 fm, kernel width 1 fm.
GridN1 == 2000
GridN2 == 2000
GridL1Milli == 2000000
GridL2Milli == 2000000
KernelWidthMilli == 1000

---------------------------------------------------------------------------
(* Arithmetic helpers *)

\* exp() in fixed point: x and the result in milli.
RECURSIVE ExpMilli(_)
ExpMilli(x) ==
  IF x >= -64 /\ x <= 64
  THEN 1000 + x + (x * x) \div 2000
  ELSE LET h == ExpMilli(x \div 2) IN (h * h + 500) \div 1000

\* C++ int(double) of a quotient n/d, d > 0: truncation toward zero.
TruncDiv(n, d) == IF n >= 0 THEN n \div d ELSE -((-n) \div d)

---------------------------------------------------------------------------
(* RFT::rft2d: kernel table and reads of the field *)

\* Ncut(int(3.0*width_*N1_/L1_))
Ncut == TruncDiv(3 * KernelWidthMilli * GridN1, GridL1Milli)

\* dxy2(L1_*L2_/N1_/N2_), milli
Dxy2Milli == ((GridL1Milli \div GridN1) * (GridL2Milli \div GridN2)) \div 1000

KernelWidthSqrMilli == (KernelWidthMilli * KernelWidthMilli) \div 1000

\* TAB_clip[i][j] = exp(-(ic*ic+jc*jc)*dxy2/width/width)*dxy2/(M_PI*width*width)
TAB_clip ==
  [ic \in -Ncut..Ncut, jc \in -Ncut..Ncut |->
     (ExpMilli(-(((ic * ic + jc * jc) * Dxy2Milli * 1000) \div KernelWidthSqrMilli))
        * Dxy2Milli * 1000) \div (PiMilli * KernelWidthSqrMilli)]

\* The real channel of phi_x after run(), by realisation: 1 is the uniform
\* field, 2 a checkerboard of 0 and 1.
FieldValue(id, i, j) == IF id = 1 THEN 1 ELSE (i + j) % 2

\* get_field(i, j): the value at cell (i mod N1, j mod N2).
get_field(i, j) == FieldValue(field, i % GridN1, j % GridN2)

\* Kf = sum over |i|,|j| <= cut of field(fiA+i,fjA+j)*field(fiB+i,fjB+j)*kernel[i][j]
\* (the window's cells k = 0 .. (2 cut + 1)^2 - 1, row by row).
RECURSIVE WindowSum(_, _, _, _, _)
WindowSum(k, fiA, fjA, fiB, fjB) ==
  LET side == 2 * Ncut + 1
      i == (k \div side) - Ncut
      j == (k % side) - Ncut
  IN IF k >= side * side
     THEN 0
     ELSE get_field(fiA + i, fjA + j) * get_field(fiB + i, fjB + j) * TAB_clip[i, j]
          + WindowSum(k + 1, fiA, fjA, fiB, fjB)

calculate_fluct_norm(fiA, fjA, fiB, fjB) == WindowSum(0, fiA, fjA, fiB, fjB)

---------------------------------------------------------------------------
(* RFT::rft2d::rft2d *)

\* Before construction.
NoGenerator ==
  [status |-> "none", N1 |-> 0, N2 |-> 0, L1 |-> 0, L2 |-> 0,
   Var_Phi |-> 0, lx |-> 0, width |-> 0, Ncut |-> 0]

\* The members the initialiser list sets (lengths in milli), with how the
\* constructor ended.
Members(status, N1_, N2_, L1_, L2_, Var_Phi_, lx_, width_) ==
  [status |-> status, N1 |-> N1_, N2 |-> N2_, L1 |-> L1_, L2 |-> L2_,
   Var_Phi |-> Var_Phi_, lx |-> lx_, width |-> width_,
   Ncut |-> TruncDiv(3 * width_ * N1_, L1_)]

\* How the constructor can end.  It tests none of its arguments.  Two of the
\* calls it makes can stop it: gsl_sf_gamma_inc_P(fluct, x) in iCDF::iCDF
\* raises a GSL domain error for fluct <= 0, which aborts under GSL's default
\* error handler and returns under a disabled one; new double*[Ncut*2+1]
\* throws std::bad_array_new_length for a negative length.
Outcomes(N1_, L1_, Var_Phi_, width_) ==
  (IF Var_Phi_ <= 0 THEN {"aborted"} ELSE {})
  \cup (IF 2 * TruncDiv(3 * width_ * N1_, L1_) + 1 < 0 THEN {"threw"} ELSE {"built"})

rft2d(N1_, N2_, L1_, L2_, Var_Phi_, lx_, width_) ==
  /\ gen.status = "none"
  /\ \E status \in Outcomes(N1_, L1_, Var_Phi_, width_) :
       gen' = Members(status, N1_, N2_, L1_, L2_, Var_Phi_, lx_, width_)
  /\ UNCHANGED <<eventVars, grid, icdf>>

---------------------------------------------------------------------------
(* Nucleon *)

\* random::engine()%1950+25
AnchorIndex(r) == (r % AnchorMod) + AnchorOffset

\* What a call records about itself.
Call(name, a, b, arg, queried) ==
  [name |-> name, a |-> a, b |-> b, arg |-> arg, queried |-> queried]

\* The members set_position writes: x_, y_, participant_ = false, fi_, fj_.
Placed(p, r1, r2) ==
  [x |-> p[1], y |-> p[2], participant |-> FALSE,
   fi |-> AnchorIndex(r1), fj |-> AnchorIndex(r2)]

\* Nucleon::set_position(x, y): r1, r2 are the two outputs of random::engine.
set_position(n, p, r1, r2) ==
  /\ enginePos + 2 <= MaxDraws
  /\ nuc' = [nuc EXCEPT ![n] = Placed(p, r1, r2)]
  /\ enginePos' = enginePos + 2
  /\ op' = Call("set_position", n, n, 0, FALSE)
  /\ ret' = FALSE
  /\ UNCHANGED <<prefactor, genPos, field, gen, grid, icdf>>

\* Nucleon::set_participant()
set_participant(n, N) == [N EXCEPT ![n].participant = TRUE]

---------------------------------------------------------------------------
(* NucleonProfile *)

\* fluct_dist_(random::engine) * one_div_two_pi / width_sqr_
fluctuate(g) ==
  /\ enginePos + 1 <= MaxDraws
  /\ prefactor' = (g * 1000) \div ((2 * PiMilli * WidthSqrMilli) \div 1000)
  /\ enginePos' = enginePos + 1
  /\ op' = Call("fluctuate", "-", "-", g, FALSE)
  /\ ret' = FALSE
  /\ UNCHANGED <<nuc, genPos, field, gen, grid, icdf>>

\* fast_exp_(x): the fast exponential, x in milli.
fast_exp(x) == ExpMilli(x)

\* neg_one_div_two_width_sqr_*distance_sqr, milli
NegOneDivTwoWidthSqrTimes(distance_sqr) ==
  -((distance_sqr * 1000 * 1000) \div (2 * WidthSqrMilli))

\* A plausible slip: >= for >.
TruncatedInclusive(distance_sqr) == distance_sqr >= TruncRadiusSqr

\* if (distance_sqr > trunc_radius_sqr_)
Truncated(distance_sqr) == distance_sqr > TruncRadiusSqr

thicknessValue(distance_sqr) ==
  IF Truncated(distance_sqr)
  THEN 0
  ELSE (prefactor * fast_exp(NegOneDivTwoWidthSqrTimes(distance_sqr))) \div 1000

\* NucleonProfile::thickness(distance_sqr), after a fluctuate() set prefactor_.
thickness(distance_sqr) ==
  /\ prefactor # 0
  /\ ret' = thicknessValue(distance_sqr)
  /\ op' = Call("thickness", "-", "-", distance_sqr, FALSE)
  /\ UNCHANGED <<nuc, prefactor, enginePos, genPos, field, gen, grid, icdf>>

DistanceSqr(a, b) ==
  LET dx == nuc[a].x - nuc[b].x
      dy == nuc[a].y - nuc[b].y
  IN dx * dx + dy * dy

\* A plausible slip: the second test negated.
BothParticipantsNegated(a, b) == nuc[a].participant /\ ~nuc[b].participant

\* if (A.is_participant() && B.is_participant())
BothParticipants(a, b) == nuc[a].participant /\ nuc[b].participant

\* A plausible slip: >= for >.
OutOfRangeInclusive(distance_sqr) == distance_sqr >= MaxImpactSqr

\* if (distance_sqr > max_impact_sqr_)
OutOfRange(distance_sqr) == distance_sqr > MaxImpactSqr

\* exp(-Kf*exp(cross_sec_param_ - .25*distance_sqr/width_sqr_)), milli
OneMinusProb(Kf, distance_sqr) ==
  ExpMilli(-((Kf * ExpMilli(CrossSecParamMilli
                            - (250 * distance_sqr * 1000) \div WidthSqrMilli)) \div 1000))

\* A plausible slip: the comparison reversed (sampling P > U on 1 - P).
SampledReversed(one_minus_prob, u) == one_minus_prob > u

\* if (one_minus_prob < random::canonical<double>())
Sampled(one_minus_prob, u) == one_minus_prob < u

\* A plausible slip: the flags are assigned the outcome instead of only set.
MarkPairAssign(a, b, sampled) ==
  [nuc EXCEPT ![a].participant = sampled, ![b].participant = sampled]

\* { A.set_participant(); B.set_participant(); } only when sampled
MarkPair(a, b, sampled) ==
  IF sampled THEN set_participant(b, set_participant(a, nuc)) ELSE nuc

Kf(a, b) == calculate_fluct_norm(nuc[a].fi, nuc[a].fj, nuc[b].fi, nuc[b].fj)

\* NucleonProfile::participate(A, B): u is the uniform the engine would give.
participate(a, b, u) ==
  /\ field # 0
  /\ UNCHANGED <<prefactor, genPos, field, gen, grid, icdf>>
  /\ IF BothParticipants(a, b)
     THEN /\ ret' = TRUE
          /\ op' = Call("participate", a, b, -1, FALSE)
          /\ UNCHANGED <<nuc, enginePos>>
     ELSE IF OutOfRange(DistanceSqr(a, b))
     THEN /\ ret' = FALSE
          /\ op' = Call("participate", a, b, -1, FALSE)
          /\ UNCHANGED <<nuc, enginePos>>
     ELSE /\ enginePos + 1 <= MaxDraws
          /\ enginePos' = enginePos + 1
          /\ op' = Call("participate", a, b, u, TRUE)
          /\ LET sampled == Sampled(OneMinusProb(Kf(a, b), DistanceSqr(a, b)), u)
             IN /\ nuc' = MarkPair(a, b, sampled)
                /\ ret' = sampled

---------------------------------------------------------------------------
(* RFT::rft2d::run() *)

\* real_space_white_noise(): one white_noise_generator(generator) per cell.
WhiteNoiseDraws == GridN1 * GridN2

\* A plausible slip: the fill drawing from the process-wide engine.
run_global_engine(f) ==
  /\ genPos < MaxRuns * WhiteNoiseDraws
  /\ genPos' = genPos + WhiteNoiseDraws
  /\ enginePos' = enginePos + WhiteNoiseDraws
  /\ field' = f
  /\ op' = Call("run", "-", "-", f, FALSE)
  /\ ret' = FALSE
  /\ UNCHANGED <<nuc, prefactor, gen, grid, icdf>>

\* run(): fill, forward transform, filter, backward transform.
run(f) ==
  /\ genPos < MaxRuns * WhiteNoiseDraws
  /\ genPos' = genPos + WhiteNoiseDraws
  /\ field' = f
  /\ op' = Call("run", "-", "-", f, FALSE)
  /\ ret' = FALSE
  /\ UNCHANGED <<nuc, prefactor, enginePos, gen, grid, icdf>>

---------------------------------------------------------------------------
(* One event *)

\* The event starts with the nucleons placed by their nucleus (set_position
\* on each, a default-constructed Nucleon holds no readable value); stream
\* positions are counted from that point on.
FirstPosition == [n \in Nucleons |-> IF n = "C" THEN <<1, 3>> ELSE <<0, 0>>]

\* The generator of the event: built from the configuration above.
EventGenerator ==
  Members("built", GridN1, GridN2, GridL1Milli, GridL2Milli, 1000, 1000, KernelWidthMilli)

NoRun == [pc |-> "idle", N1 |-> 0, N2 |-> 0, i |-> 0, j |-> 0,
          phi_x |-> <<>>, phi_k |-> <<>>, oob |-> FALSE]
NoTable == [built |-> FALSE, N |-> 0, fluct |-> 0, x_gamma |-> <<>>,
            y_gamma_cdf |-> <<>>, evals |-> <<>>]

Init ==
  /\ gen = EventGenerator
  /\ grid = NoRun
  /\ icdf = NoTable
  /\ nuc = [n \in Nucleons |-> Placed(FirstPosition[n], 1950, 1950)]
  /\ prefactor = 0
  /\ enginePos = 0
  /\ genPos = 0
  /\ field = 0
  /\ op = Call("none", "-", "-", 0, FALSE)
  /\ ret = FALSE

SetPosition == \E n \in Nucleons, p \in Positions, r1, r2 \in EngineOutputs :
                 set_position(n, p, r1, r2)
Fluctuate == \E g \in GammaDraws : fluctuate(g)
Thickness == \E d \in DistSqrs : thickness(d)
Participate == \E a \in Projectiles, b \in Targets, u \in Uniforms : participate(a, b, u)
Run == \E f \in FieldIds : run(f)

Next == SetPosition \/ Fluctuate \/ Thickness \/ Participate \/ Run

Spec == Init /\ [][Next]_vars

---------------------------------------------------------------------------
(* Properties of one event *)

IsParticipate(o, a, b) == o.name = "participate" /\ o.a = a /\ o.b = b

Flagged(a, b) == nuc[a].participant /\ nuc[b].participant

SqDist(a, b) ==
  (nuc[a].x - nuc[b].x) * (nuc[a].x - nuc[b].x)
  + (nuc[a].y - nuc[b].y) * (nuc[a].y - nuc[b].y)

\* C1: participate(A, B) on a pair whose flags are both already true returns
\* true, leaves the stream position where it was, does not query the field
\* generator and changes no nucleon, at every distance.
C1_AlreadyParticipating ==
  [][\A a \in Projectiles, b \in Targets :
       (Flagged(a, b) /\ IsParticipate(op', a, b))
         => (ret' = TRUE /\ enginePos' = enginePos /\ ~op'.queried /\ nuc' = nuc)]_vars

\* The early exit taken by a pair farther apart than the maximum impact parameter.
C1_Witness ==
  \E a \in Projectiles, b \in Targets :
    /\ IsParticipate(op, a, b) /\ Flagged(a, b) /\ SqDist(a, b) > MaxImpactSqr
    /\ ret = TRUE /\ ~op.queried

\* C2: a pair not both participating with d^2 > max-impact^2 gets false, no
\* draw and unchanged flags; a pair with d^2 = max-impact^2 is not rejected by
\* this exit (it queries the field and consumes its draw).
C2_OutOfRange ==
  [][\A a \in Projectiles, b \in Targets :
       (~Flagged(a, b) /\ IsParticipate(op', a, b))
         => /\ SqDist(a, b) > MaxImpactSqr
                 => (ret' = FALSE /\ enginePos' = enginePos /\ ~op'.queried /\ nuc' = nuc)
            /\ SqDist(a, b) = MaxImpactSqr
                 => (enginePos' = enginePos + 1 /\ op'.queried)]_vars

\* A rejected pair one of whose members participates already.
C2_Witness ==
  \E a \in Projectiles, b \in Targets :
    /\ IsParticipate(op, a, b) /\ SqDist(a, b) > MaxImpactSqr
    /\ nuc[a].participant /\ ~nuc[b].participant
    /\ ret = FALSE /\ ~op.queried

\* q = exp(-Kf exp(cross_sec_param - d^2/(4 width^2))), milli
ClaimedQ(kf, d2) ==
  ExpMilli(-((kf * ExpMilli(CrossSecParamMilli
                            - (d2 * 1000 * 1000) \div (4 * WidthSqrMilli))) \div 1000))

\* C3: a pair not both participating with d^2 <= max-impact^2 consumes exactly
\* one uniform u; with q as above, q < u sets both flags and returns true,
\* q >= u returns false and changes no flag; with q near 1/2, u = 0.6 gives
\* true and u = 0.3 false; a call consumes one draw exactly when neither
\* early exit is taken and none otherwise.
C3_Sampling ==
  [][\A a \in Projectiles, b \in Targets :
       IsParticipate(op', a, b)
         => LET early == Flagged(a, b) \/ SqDist(a, b) > MaxImpactSqr
                q == ClaimedQ(Kf(a, b), SqDist(a, b))
                u == op'.arg
            IN /\ enginePos' - enginePos = (IF early THEN 0 ELSE 1)
               /\ ~early =>
                    /\ u \in Uniforms
                    /\ q < u => /\ ret' = TRUE
                                /\ nuc' = [nuc EXCEPT ![a].participant = TRUE,
                                                      ![b].participant = TRUE]
                    /\ q >= u => (ret' = FALSE /\ nuc' = nuc)
                    /\ (q > 300 /\ q < 600 /\ u = 600) => ret' = TRUE
                    /\ (q > 300 /\ q < 600 /\ u = 300) => ret' = FALSE]_vars

\* The draw 0.6 against q near 1/2 (d^2 = 0, Kf near 1) made the pair participate.
C3_Witness ==
  \E a \in Projectiles, b \in Targets :
    /\ IsParticipate(op, a, b) /\ op.queried /\ op.arg = 600 /\ ret = TRUE
    /\ SqDist(a, b) = 0 /\ Flagged(a, b) /\ enginePos >= 1
    /\ ClaimedQ(Kf(a, b), 0) > 450 /\ ClaimedQ(Kf(a, b), 0) < 550

\* C5: a flag that is true stays true across participate() on any pair and
\* across fluctuate(); participate on a flagged pair returns true; a flag
\* falls back to false only through set_position on that nucleon, which
\* always clears it and redraws both anchors from the engine.
C5_FlagsPersist ==
  [][/\ \A n \in Nucleons :
          (nuc[n].participant /\ ~nuc'[n].participant)
            => (op'.name = "set_position" /\ op'.a = n)
     /\ op'.name \in {"participate", "fluctuate"}
          => \A n \in Nucleons : nuc[n].participant => nuc'[n].participant
     /\ \A a \in Projectiles, b \in Targets :
          (Flagged(a, b) /\ IsParticipate(op', a, b)) => ret' = TRUE
     /\ op'.name = "set_position"
          => /\ ~nuc'[op'.a].participant
             /\ enginePos' = enginePos + 2
             /\ \E r1, r2 \in EngineOutputs :
                  /\ nuc'[op'.a].fi = (r1 % AnchorMod) + AnchorOffset
                  /\ nuc'[op'.a].fj = (r2 % AnchorMod) + AnchorOffset]_vars

\* A and B participate, and a later participate(A, C) that drew and failed
\* left their flags set.
C5_Witness ==
  /\ IsParticipate(op, "A", "C") /\ op.queried /\ ret = FALSE
  /\ nuc["A"].participant /\ nuc["B"].participant /\ ~nuc["C"].participant

\* C7 as stated: every draw of every operation, the grid fill of run()
\* included, advances the one global stream.
C7_SingleStream ==
  [][/\ op'.name = "run" => enginePos' = enginePos + GridN1 * GridN2
     /\ op'.name = "set_position" => enginePos' = enginePos + 2
     /\ op'.name = "fluctuate" => enginePos' = enginePos + 1
     /\ op'.name = "participate" => enginePos' = enginePos + (IF op'.queried THEN 1 ELSE 0)]_vars

\* C7 amended: there are two streams.  run() advances the field generator's
\* own stream by N1 N2 and leaves the global one alone; set_position (2),
\* fluctuate (1) and participate (0 or 1) advance the global stream and leave
\* the generator's alone; thickness draws from neither.
C7_TwoStreams ==
  [][/\ op'.name = "run"
          => (genPos' = genPos + GridN1 * GridN2 /\ enginePos' = enginePos)
     /\ op'.name = "set_position"
          => (enginePos' = enginePos + 2 /\ genPos' = genPos)
     /\ op'.name = "fluctuate"
          => (enginePos' = enginePos + 1 /\ genPos' = genPos)
     /\ op'.name = "participate"
          => /\ enginePos' = enginePos + (IF op'.queried THEN 1 ELSE 0)
             /\ genPos' = genPos
     /\ op'.name = "thickness"
          => (enginePos' = enginePos /\ genPos' = genPos)]_vars

\* A run() and draws of the event's operations have both happened.
C7_Witness ==
  /\ genPos = GridN1 * GridN2 /\ enginePos = 3
  /\ op.name = "participate" /\ op.queried

ClaimedThickness(d2) ==
  (prefactor * ExpMilli(-((d2 * 1000 * 1000) \div (2 * WidthSqrMilli)))) \div 1000

\* C9 as stated: 0 beyond the truncation radius, the Gaussian inside, and no
\* jump at the boundary (the boundary value equals the value beyond it, 0).
C9_Continuous ==
  op.name = "thickness"
    => /\ op.arg > TruncRadiusSqr => ret = 0
       /\ op.arg <= TruncRadiusSqr => ret = ClaimedThickness(op.arg)
       /\ op.arg = TruncRadiusSqr => ret = 0

\* C9 amended: 0 beyond the truncation radius, the Gaussian inside and on the
\* boundary, where the value is prefactor exp(-R^2/(2 width^2)) and not 0.
C9_Truncated ==
  op.name = "thickness"
    => /\ op.arg > TruncRadiusSqr => ret = 0
       /\ op.arg <= TruncRadiusSqr => ret = ClaimedThickness(op.arg)
       /\ (op.arg = TruncRadiusSqr /\ prefactor > 0) => ret > 0

\* thickness() evaluated on the boundary, with a value above 0.
C9_Witness ==
  op.name = "thickness" /\ op.arg = TruncRadiusSqr /\ ret > 0

---------------------------------------------------------------------------
(* Construction of the field generator, then anchor selection *)

InitCtor ==
  /\ gen = NoGenerator
  /\ grid = NoRun
  /\ icdf = NoTable
  /\ nuc = [n \in Nucleons |-> Placed(FirstPosition[n], 1950, 1950)]
  /\ prefactor = 0
  /\ enginePos = 0
  /\ genPos = 0
  /\ field = 0
  /\ op = Call("none", "-", "-", 0, FALSE)
  /\ ret = FALSE

Construct ==
  \E n1, n2 \in CtorSizes, l \in CtorExtents, v \in CtorShapes,
     lx \in CtorLengths, w \in CtorWidths :
    rft2d(n1, n2, l, l, v, lx, w)

\* The nucleus places a nucleon of an event that uses the built generator.
PlaceNucleon ==
  /\ gen.status = "built"
  /\ \E n \in Projectiles, p \in Positions, r1, r2 \in EngineOutputs :
       set_position(n, p, r1, r2)

NextCtor == Construct \/ PlaceNucleon

SpecCtor == InitCtor /\ [][NextCtor]_vars

ValidArguments ==
  gen.N1 > 0 /\ gen.N2 > 0 /\ gen.width > 0 /\ gen.Var_Phi > 0 /\ gen.lx > 0

\* C4: after every set_position, for every grid the generator is built with,
\* the anchors keep the kernel window inside the grid: 0 <= fi - cut,
\* fi + cut <= N1 - 1, 0 <= fj - cut, fj + cut <= N2 - 1.
C4_AnchorsInGrid ==
  (gen.status = "built" /\ ValidArguments /\ op.name = "set_position")
    => LET n == nuc[op.a]
       IN /\ 0 <= n.fi - gen.Ncut /\ n.fi + gen.Ncut <= gen.N1 - 1
          /\ 0 <= n.fj - gen.Ncut /\ n.fj + gen.Ncut <= gen.N2 - 1

\* C6: no generator results from a non-positive grid size, kernel width,
\* fluctuation shape or correlation length.
C6_RejectsNonPositive ==
  gen.status = "built" => ValidArguments

---------------------------------------------------------------------------
(* run() cell by cell, on an N1 x N2 grid *)

\* phi_x, phi_k = fftw_malloc(sizeof(fftw_complex) * N1*N2): N1 N2 cells whose
\* content is not set.  A real-space cell counts the samples written to its
\* real channel and whether its imaginary channel was zeroed; a spectral cell
\* counts the times it was multiplied by the filter.
Allocated(n1, n2) ==
  [pc |-> "fill", N1 |-> n1, N2 |-> n2, i |-> 0, j |-> 0,
   phi_x |-> [k \in 0..(n1 * n2 - 1) |-> [re |-> 0, im |-> FALSE]],
   phi_k |-> [k \in 0..(n1 * n2 - 1) |-> 0],
   oob |-> FALSE]

\* phi_x[i*N1+j], phi_k[i*N1+j]
FlatIndex(g) == g.i * g.N1 + g.j

InBuffer(g, k) == k >= 0 /\ k < g.N1 * g.N2

\* for (i < N1) for (j < N2): the next loop position, or the next stage.
Advance(g, after) ==
  IF g.j + 1 < g.N2 THEN [g EXCEPT !.j = g.j + 1]
  ELSE IF g.i + 1 < g.N1 THEN [g EXCEPT !.i = g.i + 1, !.j = 0]
  ELSE [g EXCEPT !.pc = after, !.i = 0, !.j = 0]

\* The generator is built for an N1 x N2 grid and run() is called.
StartRun ==
  /\ grid.pc = "idle"
  /\ \E n1, n2 \in 1..MaxGrid : grid' = Allocated(n1, n2)
  /\ UNCHANGED <<eventVars, gen, icdf>>

\* One iteration of real_space_white_noise(): a draw from the generator's
\* stream, written to cell i*N1+j, whose imaginary channel is zeroed.  A
\* write outside the buffer is undefined: the process may stop there, or
\* go on with the sample lost in memory that is not the grid's.
FillCell ==
  /\ grid.pc = "fill"
  /\ genPos' = genPos + 1
  /\ LET k == FlatIndex(grid) IN
       IF InBuffer(grid, k)
       THEN grid' = Advance([grid EXCEPT !.phi_x[k] = [re |-> @.re + 1, im |-> TRUE]],
                            "forward")
       ELSE \/ grid' = [grid EXCEPT !.pc = "crashed", !.oob = TRUE]
            \/ grid' = Advance([grid EXCEPT !.oob = TRUE], "forward")
  /\ UNCHANGED <<nuc, prefactor, enginePos, field, op, ret, gen, icdf>>

\* fftw_execute(plan_x2k): phi_k is the transform of phi_x, not yet filtered.
ForwardTransform ==
  /\ grid.pc = "forward"
  /\ grid' = [grid EXCEPT !.pc = "filter",
                          !.phi_k = [k \in DOMAIN grid.phi_k |-> 0]]
  /\ UNCHANGED <<eventVars, gen, icdf>>

\* One iteration of apply_k_spcae_propagation(): cell i*N1+j times ker.
FilterCell ==
  /\ grid.pc = "filter"
  /\ LET k == FlatIndex(grid) IN
       IF InBuffer(grid, k)
       THEN grid' = Advance([grid EXCEPT !.phi_k[k] = @ + 1], "backward")
       ELSE \/ grid' = [grid EXCEPT !.pc = "crashed", !.oob = TRUE]
            \/ grid' = Advance([grid EXCEPT !.oob = TRUE], "backward")
  /\ UNCHANGED <<eventVars, gen, icdf>>

\* fftw_execute(plan_k2x): the realisation is in phi_x.
BackwardTransform ==
  /\ grid.pc = "backward"
  /\ grid' = [grid EXCEPT !.pc = "done"]
  /\ UNCHANGED <<eventVars, gen, icdf>>

InitGrid ==
  /\ gen = NoGenerator
  /\ grid = NoRun
  /\ icdf = NoTable
  /\ nuc = [n \in Nucleons |-> Placed(FirstPosition[n], 1950, 1950)]
  /\ prefactor = 0
  /\ enginePos = 0
  /\ genPos = 0
  /\ field = 0
  /\ op = Call("none", "-", "-", 0, FALSE)
  /\ ret = FALSE

NextGrid == StartRun \/ FillCell \/ ForwardTransform \/ FilterCell \/ BackwardTransform

SpecGrid == InitGrid /\ [][NextGrid]_vars

\* C10: for every N1, N2 >= 1 the fill and filter loops touch only indices
\* inside [0, N1 N2) and visit every cell exactly once: when the forward
\* transform runs every real-space cell holds one sample and a zeroed
\* imaginary channel, and after run() every spectral cell was filtered once.
C10_LoopsCoverGrid ==
  /\ ~grid.oob
  /\ grid.pc \in {"filter", "backward", "done"}
       => \A k \in DOMAIN grid.phi_x : grid.phi_x[k] = [re |-> 1, im |-> TRUE]
  /\ grid.pc \in {"backward", "done"}
       => \A k \in DOMAIN grid.phi_k : grid.phi_k[k] = 1

---------------------------------------------------------------------------
(* RFT::iCDF *)

\* sqrt(fluct), milli
SqrtMilli(f) == CHOOSE r \in 0..MaxRoot : r * r <= f * 1000 /\ (r + 1) * (r + 1) > f * 1000

\* The tables gsl_sf_gamma_inc_P can fill: CDF values that do not decrease
\* with the quantile, the last step a proper one (P(k, x) still grows at the
\* end of the quantile grid, so the spline's last interval is not degenerate).
CdfTables ==
  {y \in [1..TableN -> CdfValues] :
     /\ \A i \in 1..(TableN - 1) : y[i] <= y[i + 1]
     /\ y[TableN - 1] < y[TableN]}

\* iCDF::iCDF(N_, fluct_): x_gamma[i] = i*dx_gamma with dx_gamma =
\* 10.*sqrt(fluct)/N, y_gamma_cdf[i] = P(fluct, x_gamma[i]).  Index i of the
\* code is index i + 1 here.
iCDF(N_, fluct_, y) ==
  [built |-> TRUE, N |-> N_, fluct |-> fluct_,
   x_gamma |-> [i \in 1..N_ |-> (i - 1) * ((10 * SqrtMilli(fluct_)) \div N_)],
   y_gamma_cdf |-> y,
   evals |-> <<>>]

\* 1. - gsl_sf_erf_Q(gaussian_X), milli: the standard normal CDF.
NormalCdfMilli(g) ==
  CASE g <= -9 -> 0
    [] g = -3 -> 1
    [] g = -2 -> 23
    [] g = -1 -> 159
    [] g = 0 -> 500
    [] g = 1 -> 841
    [] g = 2 -> 977
    [] g = 3 -> 999
    [] g >= 9 -> 1000

\* gsl_spline_eval on the linear spline through (y_gamma_cdf[i], x_gamma[i]).
SplineEval(t, cdf) ==
  LET below == {i \in 1..(t.N - 1) : t.y_gamma_cdf[i] <= cdf}
      lo == CHOOSE i \in below : \A k \in below : k <= i
  IN t.x_gamma[lo]
     + ((cdf - t.y_gamma_cdf[lo]) * (t.x_gamma[lo + 1] - t.x_gamma[lo]))
         \div (t.y_gamma_cdf[lo + 1] - t.y_gamma_cdf[lo])

\* A plausible slip: the first entry returned on both sides.
UpperQuantileFirst(t) == t.x_gamma[1]

\* x_gamma[N-1]
UpperQuantile(t) == t.x_gamma[t.N]

\* iCDF::operator()(gaussian_X), milli
iCDFValue(t, g) ==
  LET cdf == NormalCdfMilli(g) IN
    IF cdf < t.y_gamma_cdf[1]
    THEN (t.x_gamma[1] * 1000) \div t.fluct
    ELSE IF cdf > t.y_gamma_cdf[t.N]
    THEN (UpperQuantile(t) * 1000) \div t.fluct
    ELSE LET result == (SplineEval(t, cdf) * 1000) \div t.fluct
         IN IF result < 0 THEN 0 ELSE result

\* A call of the table; the last two calls are kept, the latest first.
Evaluate(g) ==
  /\ icdf.built
  /\ icdf' = [icdf EXCEPT !.evals = SubSeq(<<[g |-> g, r |-> iCDFValue(icdf, g)]>> \o @,
                                           1, IF Len(@) = 0 THEN 1 ELSE 2)]
  /\ UNCHANGED <<eventVars, gen, grid>>

InitICDF ==
  /\ gen = NoGenerator
  /\ grid = NoRun
  /\ \E fluct \in Shapes, y \in CdfTables : icdf = iCDF(TableN, fluct, y)
  /\ nuc = [n \in Nucleons |-> Placed(FirstPosition[n], 1950, 1950)]
  /\ prefactor = 0
  /\ enginePos = 0
  /\ genPos = 0
  /\ field = 0
  /\ op = Call("none", "-", "-", 0, FALSE)
  /\ ret = FALSE

NextICDF == \E g \in Deviates : Evaluate(g)

SpecICDF == InitICDF /\ [][NextICDF]_vars

\* C8: for two deviates g1 < g2 the results satisfy iCDF(g1) <= iCDF(g2), and
\* every result is >= 0, whichever of the three branches produced it.
C8_Monotone ==
  /\ \A k \in DOMAIN icdf.evals : icdf.evals[k].r >= 0
  /\ \A k, m \in DOMAIN icdf.evals :
       icdf.evals[k].g < icdf.evals[m].g => icdf.evals[k].r <= icdf.evals[m].r

\* An interpolated value followed by a larger one from above the table.
C8_Witness ==
  /\ Len(icdf.evals) = 2
  /\ icdf.evals[2].g < icdf.evals[1].g
  /\ NormalCdfMilli(icdf.evals[2].g) > icdf.y_gamma_cdf[1]
  /\ NormalCdfMilli(icdf.evals[2].g) < icdf.y_gamma_cdf[icdf.N]
  /\ NormalCdfMilli(icdf.evals[1].g) > icdf.y_gamma_cdf[icdf.N]
  /\ 0 < icdf.evals[2].r /\ icdf.evals[2].r < icdf.evals[1].r

====
